---- MODULE Spec2Model ----
(***************************************************************************)
(* CrystalSwap: the session driver (execute) and the swap executor of the  *)
(* two implementations of the repository,                                  *)
(*   "instance": src/src/model/crystal_swap/instance.py                    *)
(*   "crystal" : src/src/model/crystal/crystal_swap.py                     *)
(* One session of one account is modelled.  Every await of the code is a   *)
(* step; pc names the await the coroutine is suspended at, or one of the   *)
(* control points drv_loop, sw_loop, sw_except, sw_return.  Amounts and    *)
(* balances are integers in units of 10^-6 token.                          *)
(***************************************************************************)
EXTENDS Integers, Sequences, FiniteSets, TLC

VARIABLES
    impl,            \* which of the two implementations runs
    ENABLED_FLAG,    \* config has CRYSTAL_SWAP and CRYSTAL_SWAP.ENABLED is true
    ATTEMPTS,        \* config.SETTINGS.ATTEMPTS
    pc,              \* control point
    num_swaps,       \* execute: the drawn swap count
    swap_num,        \* execute: the loop variable (0 before the loop)
    token_balances,  \* execute: the balances of the last refresh
    token_from,      \* the source token of the iteration ("" when none)
    amount,          \* the amount of the iteration
    swap_result,     \* the outcome the executor returned last
    retry,           \* swap: the loop variable (-1 before the loop)
    tx_hash,         \* swap: the hash of the swap transaction broadcast last
    e,               \* swap: the exception being handled ("none" when none)
    call,            \* observation of the current swap call
    ses,             \* observation of the session
    gtb              \* get_token_balance (instance): the locals of one call

(* What a session leaves alone: the configuration, and the locals of      *)
(* get_token_balance, whose call is one step of the session and is taken  *)
(* apart into its awaits in BalanceSpec only.                             *)
cfg  == <<impl, ENABLED_FLAG, ATTEMPTS, gtb>>
drv  == <<num_swaps, swap_num, token_balances, token_from, amount>>
exe  == <<retry, tx_hash, e>>
vars == <<impl, ENABLED_FLAG, ATTEMPTS, pc, num_swaps, swap_num, token_balances, token_from,
          amount, swap_result, retry, tx_hash, e, call, ses, gtb>>

----------------------------------------------------------------------------
(* Bounds of the model: the configuration values the session may run with. *)
MaxAttempts == 2
MinSwaps == 0
MaxSwaps == 2

(* Thresholds of the code, in units of 10^-6 token. *)
MON_MIN_WrongUnit == 1000 \div 1000
MON_MIN == 1000
USDC_MIN == 10000
SWAP_DUST == 10000

Impls == {"instance", "crystal"}
Tokens == {"MON", "USDC"}

(* Balances a query may report (0 is also what a failed query returns). *)
QueriedBalances(token) ==
    IF token = "MON" THEN {0, 500, 20000} ELSE {0, 5000, 40000}

(* config.FLOW.PERCENT_OF_BALANCE_TO_SWAP: the percents random.uniform draws. *)
Percents == {50, 100}

(* getAmountsOut: the expected outputs the router may quote, in base units. *)
Quotes == {1, 1000}

(* web3.eth.estimate_gas: what the node may estimate. *)
Estimates == {100000}

(* estimate_gas (crystal): the gas limit returned when the estimation fails. *)
GAS_DEFAULT == 200000

(* approve(spender, 2**256 - 1): a stand-in above every amount of the model. *)
UNLIMITED == 1000000
Allowances == {0, UNLIMITED}

----------------------------------------------------------------------------
(* Pure helpers. *)

BothBelowMinimum(mon, usdc) == mon < MON_MIN /\ usdc < USDC_MIN

PercentOf_NoDivision(balance, percent) == balance * percent

PercentOf(balance, percent) == (balance * percent) \div 100

InsufficientBalance_OnlyEmpty(balance, amt) == balance <= 0
InsufficientBalance(balance, amt) == balance < amt

(* int(expected_out * (1 - slippage / 100)) with slippage = 0.5. *)
MinAmountOut(expected_out) == (expected_out * 995) \div 1000

(* int(estimated * 1.1) (instance), int(estimated * 1.2) (crystal). *)
GasWithBuffer(estimated) ==
    IF impl = "instance" THEN (estimated * 11) \div 10 ELSE (estimated * 12) \div 10

AllowanceSufficient(allowance, amount_wei) == allowance >= amount_wei

HasNextAttempt_OffByOne(r) == r + 1 <= ATTEMPTS
HasNextAttempt(r) == r + 1 < ATTEMPTS

ShouldBackoff(r) == r < ATTEMPTS - 1

ReceiptSucceeded_AnyReceipt(status) == status \in {0, 1}
ReceiptSucceeded_Inverted(status) == status = 0
ReceiptSucceeded(status) == status = 1

(* The hash the node returns for the n-th broadcast of the call: one       *)
(* byte stands for the 32 of a real hash.                                  *)
TxHashOf(n) == <<n % 256>>

HexDigits == <<"0", "1", "2", "3", "4", "5", "6", "7",
               "8", "9", "a", "b", "c", "d", "e", "f">>

RECURSIVE HexOf(_)
HexOf(bytes) ==
    IF bytes = <<>> THEN <<>>
    ELSE <<HexDigits[(Head(bytes) \div 16) + 1], HexDigits[(Head(bytes) % 16) + 1]>>
         \o HexOf(Tail(bytes))

(* Web3.to_hex(tx_hash) (instance) and tx_hash.hex() (crystal). *)
ToHex(bytes) == <<"0", "x">> \o HexOf(bytes)

TxId_Raw(bytes) == bytes
TxId(bytes) == IF impl = "instance" THEN ToHex(bytes) ELSE HexOf(bytes)

(* Outcomes: the dictionaries swap returns. *)
Success(id) == [success |-> TRUE, tx_hash |-> id, error |-> ""]
Failure(msg) == [success |-> FALSE, tx_hash |-> <<>>, error |-> msg]
NoResult == [success |-> FALSE, tx_hash |-> <<>>, error |-> ""]

ExhaustedMsg ==
    IF impl = "instance" THEN "Max retry attempts reached" ELSE "All attempts failed"

(* Observation of one swap call, reset when the call starts. *)
NewCall == [attempts |-> 0,        \* attempts started
            sends |-> 0,           \* send_raw_transaction calls that returned a hash
            swapSends |-> 0,       \* those of them that sent the swap transaction
            queries |-> 0,         \* balance queries of the executor
            sleeps |-> 0,          \* backoff sleeps started
            allShort |-> TRUE,     \* every balance query so far was short
            receipts |-> "none",   \* none | zeros (all status 0) | one (some status 1)
            lastEnd |-> "none",    \* how the last ended attempt ended
            approval |-> "none",   \* the approval of the current attempt
            lastStatus |-> -1,     \* status of the last swap receipt (-1: none)
            lastAttempt |-> -1,    \* attempt that obtained it
            lastSlept |-> -1,      \* attempt whose end started the last backoff sleep
            shortAt |-> -1,        \* first attempt whose balance query was short
            estFails |-> 0,        \* 1: every gas estimation so far failed; -1: one succeeded
            gas |-> 0,             \* the gas limit of the transaction being built (0: none)
            quote |-> -1,          \* expected_out of the attempt (-1: no quote)
            minOut |-> -1,         \* minimum output of the swap being built (-1: none)
            sentAt |-> -1,         \* attempt of the last swap broadcast (-1: none)
            orphan |-> FALSE,      \* a swap whose receipt wait failed is still pending
            stale |-> FALSE,       \* the nonce read is below the account's count
            included |-> 0]        \* swaps of the call included with status 1

NewSession == [chain |-> FALSE,    \* a chain-client call was issued in the session
               swapCalls |-> 0,    \* invocations of the swap executor
               broadcast |-> FALSE, \* a transaction was broadcast in the session
               refreshes |-> 0,    \* balance refreshes of the loop
               pauses |-> 0,       \* pauses between iterations
               allLow |-> TRUE,    \* every refresh so far was below both minimums
               depletedAt |-> 0,   \* first iteration that saw both below (0: none)
               lastPhase |-> "Idle", \* at drv_loop: the phase that led there
               awaiting |-> {},    \* broadcasts whose receipt wait is in progress
               prevFailed |-> FALSE, \* the swap of the ended iteration failed
               percent |-> 0]      \* the percent drawn in a skipped iteration (0: none)

NoteReceipt(c, status) ==
    IF status = 1 \/ c.receipts = "one" THEN "one" ELSE "zeros"

----------------------------------------------------------------------------
(* Control points of one attempt. *)
ApprovePcs == {"ap_allowance", "ap_gas", "ap_nonce", "ap_estimate", "ap_send", "ap_receipt"}
SwapPcs == {"sw_balance", "sw_quote", "sw_gas", "sw_nonce", "sw_estimate", "sw_send", "sw_receipt"}
ExecutorPcs == ApprovePcs \cup SwapPcs \cup {"sw_loop", "sw_except", "sw_sleep", "sw_return", "sw_raised"}
DriverPcs == {"idle", "init_balances", "drv_loop", "refresh", "select", "pause", "done"}

InApprove == pc \in ApprovePcs

GasPc == IF InApprove THEN "ap_gas" ELSE "sw_gas"
NoncePc == IF InApprove THEN "ap_nonce" ELSE "sw_nonce"
EstimatePc == IF InApprove THEN "ap_estimate" ELSE "sw_estimate"

(* instance: get_gas_params, then the nonce; crystal: the nonce, then get_gas_params. *)
FirstTxPc(approve) ==
    IF impl = "instance" THEN (IF approve THEN "ap_gas" ELSE "sw_gas")
    ELSE (IF approve THEN "ap_nonce" ELSE "sw_nonce")
AfterGas == IF impl = "instance" THEN NoncePc ELSE EstimatePc
AfterNonce == IF impl = "instance" THEN EstimatePc ELSE GasPc

FirstAwait ==
    IF impl = "instance" THEN "sw_balance"
    ELSE IF token_from = "MON" THEN FirstTxPc(FALSE) ELSE "ap_allowance"

----------------------------------------------------------------------------
(* The swap executor: swap (instance), swap_mon_to_usdc and                *)
(* swap_usdc_to_mon (crystal).                                             *)

(* What the chain client calls and the balance check raise: all of class   *)
(* Exception, which the handler of the attempt catches.                    *)
Faults == {"insufficient_balance", "quote", "allowance", "gas_params", "nonce",
           "estimate_gas", "broadcast", "receipt"}

Catches_OnlyValueError(src) == src = "insufficient_balance"
Catches_NotReceiptTimeout(src) == src \in Faults \ {"receipt"}
Catches(src) == src \in Faults

(* A call of the attempt raised: approve_usdc (crystal) catches it itself  *)
(* and the swap then returns "Approval failed"; everywhere else the        *)
(* handler of the attempt takes it.  c is call as updated by the step.     *)
Fault(src, c) ==
    IF InApprove /\ impl = "crystal"
    THEN /\ pc' = "sw_return"
         /\ e' = e
         /\ swap_result' = Failure("Approval failed")
         /\ call' = [c EXCEPT !.lastEnd = "approval_failed"]
    ELSE \* the locals of the attempt are not read again
         /\ pc' = IF Catches(src) THEN "sw_except" ELSE "sw_raised"
         /\ e' = src
         /\ swap_result' = swap_result
         /\ call' = [c EXCEPT !.lastEnd = "exception", !.gas = 0, !.quote = -1,
                              !.minOut = -1, !.stale = FALSE, !.approval = "none"]

(* for retry in range(ATTEMPTS): the next attempt, or the return after the loop. *)
SwapLoop ==
    /\ pc = "sw_loop"
    /\ IF HasNextAttempt(retry)
       THEN /\ retry' = retry + 1
            /\ call' = [call EXCEPT !.attempts = @ + 1, !.approval = "none",
                                    !.gas = 0, !.quote = -1, !.stale = FALSE,
                                    \* crystal builds the swap with amountOutMin 0
                                    !.minOut = IF impl = "instance" THEN -1 ELSE 0]
            /\ pc' = FirstAwait
            /\ swap_result' = swap_result
       ELSE /\ pc' = "sw_return"
            /\ swap_result' = Failure(ExhaustedMsg)
            /\ UNCHANGED <<retry, call>>
    /\ UNCHANGED <<cfg, drv, tx_hash, e, ses>>

(* instance: balance = await get_token_balance(...); if balance < amount: raise. *)
SwapBalance ==
    /\ pc = "sw_balance"
    /\ \E balance \in QueriedBalances(token_from) :
         LET c == [call EXCEPT !.queries = @ + 1,
                               !.allShort = @ /\ (balance < amount),
                               !.shortAt = IF balance < amount /\ @ = -1 THEN retry ELSE @]
         IN  IF InsufficientBalance(balance, amount)
             THEN Fault("insufficient_balance", c)
             ELSE /\ pc' = "sw_quote"
                  /\ call' = c
                  /\ UNCHANGED <<e, swap_result>>
    /\ UNCHANGED <<cfg, drv, retry, tx_hash, ses>>

(* instance: getAmountsOut(...).call(), then approve_token for a non-native source. *)
SwapQuote ==
    /\ pc = "sw_quote"
    /\ \/ \E expected_out \in Quotes :
            /\ pc' = IF token_from = "MON" THEN FirstTxPc(FALSE) ELSE "ap_allowance"
            /\ call' = [call EXCEPT !.quote = expected_out,
                                    !.minOut = MinAmountOut(expected_out)]
            /\ UNCHANGED <<e, swap_result>>
       \/ Fault("quote", call)
    /\ UNCHANGED <<cfg, drv, retry, tx_hash, ses>>

(* check_allowance (instance), the allowance call of approve_usdc (crystal). *)
CheckAllowance ==
    /\ pc = "ap_allowance"
    /\ \/ \E allowance \in Allowances :
            /\ IF AllowanceSufficient(allowance, amount)
               THEN /\ pc' = FirstTxPc(FALSE)
                    /\ call' = [call EXCEPT !.approval = "allowance_ok"]
               ELSE /\ pc' = FirstTxPc(TRUE)
                    /\ call' = call
            /\ UNCHANGED <<e, swap_result>>
       \/ Fault("allowance", call)
    /\ UNCHANGED <<cfg, drv, retry, tx_hash, ses>>

(* get_gas_params: the latest block and the priority fee. *)
GetGasParams ==
    /\ pc \in {"ap_gas", "sw_gas"}
    /\ \/ /\ pc' = AfterGas
          /\ UNCHANGED <<e, swap_result, call>>
       \/ Fault("gas_params", call)
    /\ UNCHANGED <<cfg, drv, retry, tx_hash, ses>>

(* web3.eth.get_transaction_count. *)
GetTransactionCount ==
    /\ pc \in {"ap_nonce", "sw_nonce"}
    /\ \/ /\ pc' = AfterNonce
          \* the count of the latest block: a pending transaction is not counted
          /\ call' = [call EXCEPT !.stale = FALSE]
          /\ UNCHANGED <<e, swap_result>>
       \/ Fault("nonce", call)
    /\ UNCHANGED <<cfg, drv, retry, tx_hash, ses>>

(* except Exception of estimate_gas: instance logs and re-raises (raise e), *)
(* crystal logs and returns 200000.                                       *)
EstimateFailureRaises == impl = "instance"

(* estimate_gas: instance re-raises a failure, crystal returns 200000. *)
EstimateGas ==
    /\ pc \in {"ap_estimate", "sw_estimate"}
    /\ \/ \E estimated \in Estimates :
            /\ pc' = IF InApprove THEN "ap_send" ELSE "sw_send"
            /\ call' = [call EXCEPT !.gas = GasWithBuffer(estimated), !.estFails = -1]
            /\ UNCHANGED <<e, swap_result>>
       \/ IF EstimateFailureRaises
          THEN Fault("estimate_gas",
                     [call EXCEPT !.estFails = IF @ = -1 THEN @ ELSE 1])
          ELSE /\ pc' = IF InApprove THEN "ap_send" ELSE "sw_send"
               /\ call' = [call EXCEPT !.gas = GAS_DEFAULT,
                                       !.estFails = IF @ = -1 THEN @ ELSE 1]
               /\ UNCHANGED <<e, swap_result>>
    /\ UNCHANGED <<cfg, drv, retry, tx_hash, ses>>

(* send_raw_transaction of the approval. *)
SendApproval ==
    /\ pc = "ap_send"
    /\ \/ /\ ~call.stale
          /\ pc' = "ap_receipt"
          \* accepted with the nonce of a pending swap, it replaces that swap
          /\ call' = [call EXCEPT !.sends = @ + 1, !.gas = 0, !.orphan = FALSE]
          /\ ses' = [ses EXCEPT !.broadcast = TRUE,
                                  !.awaiting = @ \cup {<<swap_num, call.sends + 1>>}]
          /\ UNCHANGED <<e, swap_result>>
       \/ /\ Fault("broadcast", call)
          /\ ses' = ses
    /\ UNCHANGED <<cfg, drv, retry, tx_hash>>

(* After approve_token / approve_usdc saw the receipt of the approval. *)
AfterApprovalReceipt(status) ==
    IF ReceiptSucceeded(status)
    THEN /\ pc' = FirstTxPc(FALSE)
         /\ swap_result' = swap_result
         /\ call' = [call EXCEPT !.approval = "approved",
                                 !.receipts = NoteReceipt(call, status)]
    ELSE IF impl = "instance"
    THEN \* approve_token returns None and swap goes on
         /\ pc' = FirstTxPc(FALSE)
         /\ swap_result' = swap_result
         /\ call' = [call EXCEPT !.approval = "reverted",
                                 !.receipts = NoteReceipt(call, status)]
    ELSE \* approve_usdc returns False and the swap returns
         /\ pc' = "sw_return"
         /\ swap_result' = Failure("Approval failed")
         /\ call' = [call EXCEPT !.approval = "reverted",
                                 !.receipts = NoteReceipt(call, status),
                                 !.lastEnd = "approval_failed"]

(* wait_for_transaction_receipt of the approval. *)
ApprovalReceipt ==
    /\ pc = "ap_receipt"
    /\ \/ \E status \in {0, 1} :
            /\ AfterApprovalReceipt(status)
            /\ e' = e
       \/ Fault("receipt", call)
    /\ ses' = [ses EXCEPT !.awaiting = @ \ {<<swap_num, call.sends>>}]
    /\ UNCHANGED <<cfg, drv, retry, tx_hash>>

ReceiptWaitPc_NotAwaited == "sw_loop"

(* receipt = await wait_for_transaction_receipt(tx_hash): the statement   *)
(* after the broadcast of the swap.                                       *)
ReceiptWaitPc == "sw_receipt"

(* send_raw_transaction of the swap. *)
SendSwap ==
    /\ pc = "sw_send"
    /\ \/ /\ ~call.stale
          /\ pc' = ReceiptWaitPc
          /\ tx_hash' = TxHashOf(call.sends + 1)
          \* accepted with the nonce of a pending swap, it replaces that swap
          /\ call' = [call EXCEPT !.sends = @ + 1, !.swapSends = @ + 1, !.gas = 0,
                                  !.sentAt = retry, !.orphan = FALSE]
          /\ ses' = [ses EXCEPT !.broadcast = TRUE,
                                  !.awaiting = @ \cup {<<swap_num, call.sends + 1>>}]
          /\ UNCHANGED <<e, swap_result>>
       \/ /\ Fault("broadcast", call)
          /\ UNCHANGED <<tx_hash, ses>>
    /\ UNCHANGED <<cfg, drv, retry>>

(* After the swap saw the receipt of its transaction. *)
AfterSwapReceipt(status) ==
    LET c == [call EXCEPT !.receipts = NoteReceipt(call, status),
                          !.lastStatus = status,
                          !.lastAttempt = retry,
                          !.quote = -1, !.minOut = -1,
                          !.included = @ + status]
    IN  IF ReceiptSucceeded(status)
        THEN /\ pc' = "sw_return"
             /\ swap_result' = Success(TxId(tx_hash))
             /\ call' = [c EXCEPT !.lastEnd = "success"]
        ELSE IF impl = "instance"
        THEN \* continue: the next attempt, with no sleep
             /\ pc' = "sw_loop"
             /\ swap_result' = swap_result
             /\ call' = [c EXCEPT !.lastEnd = "revert"]
        ELSE \* return {"success": False, "error": "Transaction reverted"}
             /\ pc' = "sw_return"
             /\ swap_result' = Failure("Transaction reverted")
             /\ call' = [c EXCEPT !.lastEnd = "revert"]

(* wait_for_transaction_receipt of the swap. *)
SwapReceipt ==
    /\ pc = "sw_receipt"
    /\ \/ \E status \in {0, 1} :
            /\ AfterSwapReceipt(status)
            /\ e' = e
       \* the wait raised (a timeout): the transaction is still pending
       \/ Fault("receipt", [call EXCEPT !.quote = -1, !.minOut = -1, !.orphan = TRUE])
    /\ ses' = [ses EXCEPT !.awaiting = @ \ {<<swap_num, call.sends>>}]
    /\ UNCHANGED <<cfg, drv, retry, tx_hash>>

(* except Exception as e: log, and sleep unless this was the last attempt. *)
ExceptionHandler ==
    /\ pc = "sw_except"
    /\ IF ShouldBackoff(retry)
       THEN /\ pc' = "sw_sleep"
            /\ e' = e
            /\ call' = [call EXCEPT !.sleeps = @ + 1, !.lastSlept = retry]
       ELSE /\ pc' = "sw_loop"
            /\ e' = "none"
            /\ call' = call
    /\ UNCHANGED <<cfg, drv, retry, tx_hash, swap_result, ses>>

(* The backoff sleep of the handler, of a random PAUSE_BETWEEN_ATTEMPTS, returned. *)
BackoffSleep ==
    /\ pc = "sw_sleep"
    /\ pc' = "sw_loop"
    /\ e' = "none"
    /\ UNCHANGED <<cfg, drv, retry, tx_hash, swap_result, call, ses>>

----------------------------------------------------------------------------
(* The chain includes the swap whose receipt wait failed, with status 0   *)
(* or 1, while the call that broadcast it goes on; a nonce read before    *)
(* is then below the account's count.                                     *)
Mine ==
    /\ pc \in ExecutorPcs
    /\ call.orphan
    /\ \E status \in {0, 1} :
         call' = [call EXCEPT !.orphan = FALSE,
                              !.stale = pc \in {"ap_gas", "ap_estimate", "ap_send",
                                              "sw_gas", "sw_estimate", "sw_send"},
                              !.included = @ + status]
    /\ UNCHANGED <<cfg, drv, exe, ses, pc, swap_result>>

(* The session driver: execute. *)

(* _select_swap_pair (instance): token_from = "" stands for (None, None, 0). *)
NoPair == [token_from |-> "", amount |-> 0]

SelectSwapPair(balances, choice, percent) ==
    LET mon_balance == balances["MON"]
        usdc_balance == balances["USDC"]
        swap_mon == choice /\ mon_balance >= MON_MIN
    IN  IF BothBelowMinimum(mon_balance, usdc_balance) THEN NoPair
        ELSE IF swap_mon
        THEN IF PercentOf(mon_balance, percent) < MON_MIN THEN NoPair
             ELSE [token_from |-> "MON", amount |-> PercentOf(mon_balance, percent)]
        ELSE IF PercentOf(usdc_balance, percent) < USDC_MIN THEN NoPair
             ELSE [token_from |-> "USDC", amount |-> PercentOf(usdc_balance, percent)]

(* if amount <= 0.01 (instance, execute). *)
TooSmall(amt) == amt <= SWAP_DUST

HasNextSwap_StopAfterFailure == swap_num < num_swaps /\ ~ses.prevFailed

HasNextSwap_OffByOne == swap_num <= num_swaps

(* for swap_num in range(1, num_swaps + 1). *)
HasNextSwap == swap_num < num_swaps

ShouldPause_OffByOne == swap_num <= num_swaps

ShouldPause_Inverted == swap_num >= num_swaps

(* if swap_num < num_swaps: the pause between swaps. *)
ShouldPause == swap_num < num_swaps

(* The observation of the balances read: MON < 0.001 and USDC < 0.01. *)
Depleted(mon, usdc) == mon < 1000 /\ usdc < 10000

NoteBalances(mon, usdc) == [ses EXCEPT !.allLow = @ /\ Depleted(mon, usdc)]

NoteDepleted(s) ==
    IF Depleted(token_balances["MON"], token_balances["USDC"]) /\ s.depletedAt = 0
    THEN [s EXCEPT !.depletedAt = swap_num]
    ELSE s

(* The call of the swap executor. *)
CallSwap(from, amt) ==
    /\ pc' = "sw_loop"
    /\ token_from' = from
    /\ amount' = amt
    /\ retry' = -1
    /\ tx_hash' = <<>>
    /\ e' = "none"
    /\ call' = NewCall
    /\ ses' = [NoteDepleted(ses) EXCEPT !.swapCalls = @ + 1, !.prevFailed = FALSE]

(* continue: the iteration ends with no swap and no pause. *)
SkipIteration(from, amt, percent) ==
    /\ pc' = "drv_loop"
    /\ token_from' = from
    /\ amount' = amt
    /\ ses' = [NoteDepleted(ses) EXCEPT !.lastPhase = "Selecting", !.percent = percent,
                                        !.prevFailed = FALSE]
    /\ UNCHANGED <<retry, tx_hash, e, call>>

(* get_token_balance before it is called. *)
NoBalanceCall == [pc |-> "gtb_idle",
                  token |-> "",              \* the token asked for
                  retries |-> 0,
                  last_exception |-> "none",
                  result |-> -1,             \* the value returned (-1: not returned)
                  queries |-> 0,             \* balance queries sent to the node
                  reported |-> -1]           \* the attempt count of the error message

Init ==
    /\ gtb = NoBalanceCall
    /\ impl \in Impls
    /\ ENABLED_FLAG \in BOOLEAN
    /\ ATTEMPTS \in 0..MaxAttempts
    /\ pc = "idle"
    /\ num_swaps = 0
    /\ swap_num = 0
    /\ token_balances = [t \in Tokens |-> 0]
    /\ token_from = ""
    /\ amount = 0
    /\ swap_result = NoResult
    /\ retry = -1
    /\ tx_hash = <<>>
    /\ e = "none"
    /\ call = NewCall
    /\ ses = NewSession

Disabled_Never == FALSE

(* if not hasattr(self.config, "CRYSTAL_SWAP") or not ...ENABLED: ENABLED_FLAG *)
(* is false when the section is missing and when its flag is false.       *)
Disabled == ~ENABLED_FLAG

(* execute up to its first await: the ENABLED check; crystal then draws num_swaps. *)
Start ==
    /\ pc = "idle"
    /\ IF Disabled
       THEN pc' = "done" /\ num_swaps' = num_swaps
       ELSE IF impl = "instance"
       THEN pc' = "init_balances" /\ num_swaps' = num_swaps
       ELSE /\ pc' = "drv_loop"
            /\ \E n \in MinSwaps..MaxSwaps : num_swaps' = n
    /\ UNCHANGED <<cfg, swap_num, token_balances, token_from, amount, swap_result, exe, call, ses>>

(* instance: the initial balances, which are only logged, then           *)
(* num_swaps = random.randint(min_swaps, max_swaps).                      *)
InitialBalances ==
    /\ pc = "init_balances"
    /\ \E mon \in QueriedBalances("MON"), usdc \in QueriedBalances("USDC") :
         token_balances' = [t \in Tokens |-> IF t = "MON" THEN mon ELSE usdc]
    /\ \E n \in MinSwaps..MaxSwaps : num_swaps' = n
    /\ pc' = "drv_loop"
    /\ ses' = [ses EXCEPT !.chain = TRUE]
    /\ UNCHANGED <<cfg, swap_num, token_from, amount, swap_result, exe, call>>

(* The head of the loop over swap_num; the pair and the amount of the     *)
(* ended iteration are not read again and are cleared.                   *)
DriverLoop ==
    /\ pc = "drv_loop"
    /\ IF HasNextSwap
       THEN pc' = "refresh" /\ swap_num' = swap_num + 1
       ELSE pc' = "done" /\ swap_num' = swap_num
    /\ token_from' = ""
    /\ amount' = 0
    /\ ses' = [ses EXCEPT !.lastPhase = "none", !.percent = 0]
    /\ UNCHANGED <<cfg, num_swaps, token_balances, swap_result, exe, call>>

(* The balance refresh of the iteration: get_token_balance of MON and of USDC. *)
RefreshBalances ==
    /\ pc = "refresh"
    /\ \E mon \in QueriedBalances("MON"), usdc \in QueriedBalances("USDC") :
         /\ token_balances' = [t \in Tokens |-> IF t = "MON" THEN mon ELSE usdc]
         /\ ses' = [NoteBalances(mon, usdc) EXCEPT !.refreshes = @ + 1, !.chain = TRUE]
    /\ pc' = "select"
    /\ UNCHANGED <<cfg, num_swaps, swap_num, token_from, amount, swap_result, exe, call>>

(* instance: _select_swap_pair, the two skips, and the call of swap. *)
InstanceSelect ==
    /\ pc = "select"
    /\ impl = "instance"
    /\ \E choice \in BOOLEAN, percent \in Percents :
         LET sel == SelectSwapPair(token_balances, choice, percent)
             \* the percent is drawn only past the check of both minimums
             drawn == IF BothBelowMinimum(token_balances["MON"], token_balances["USDC"])
                      THEN 0 ELSE percent
         IN  IF sel.token_from = "" THEN SkipIteration("", 0, drawn)
             ELSE IF TooSmall(sel.amount) THEN SkipIteration(sel.token_from, sel.amount, drawn)
             ELSE CallSwap(sel.token_from, sel.amount)
    /\ UNCHANGED <<cfg, num_swaps, swap_num, token_balances, swap_result>>

(* crystal: the break on depleted balances, the direction and the amount. *)
CrystalSelect ==
    /\ pc = "select"
    /\ impl = "crystal"
    /\ LET mon_balance == token_balances["MON"]
           usdc_balance == token_balances["USDC"]
       IN  IF BothBelowMinimum(mon_balance, usdc_balance)
           THEN /\ pc' = "done"
                /\ ses' = NoteDepleted(ses)
                /\ UNCHANGED <<token_from, amount, retry, tx_hash, e, call>>
           ELSE \E choice \in BOOLEAN, percent \in Percents :
                  LET swap_mon == choice /\ mon_balance >= MON_MIN
                      amt == IF swap_mon THEN PercentOf(mon_balance, percent)
                             ELSE PercentOf(usdc_balance, percent)
                      from == IF swap_mon THEN "MON" ELSE "USDC"
                  IN  IF amt < (IF swap_mon THEN MON_MIN ELSE USDC_MIN)
                      THEN SkipIteration(from, amt, percent)
                      ELSE CallSwap(from, amt)
    /\ UNCHANGED <<cfg, num_swaps, swap_num, token_balances, swap_result>>

(* After the swap returned: the log of the outcome and the pause.  The    *)
(* outcome is logged and discarded, and the locals of the ended call are  *)
(* gone: they are cleared here.                                           *)
SwapReturned ==
    /\ pc = "sw_return"
    /\ LET noted == [ses EXCEPT !.prevFailed = ~swap_result.success]
       IN  IF ShouldPause
           THEN pc' = "pause" /\ ses' = [noted EXCEPT !.pauses = @ + 1]
           ELSE pc' = "drv_loop" /\ ses' = [noted EXCEPT !.lastPhase = "Executing"]
    /\ swap_result' = NoResult
    /\ retry' = -1
    /\ tx_hash' = <<>>
    /\ call' = NewCall
    /\ UNCHANGED <<cfg, drv, e>>

(* The pause between swaps returned. *)
Pause ==
    /\ pc = "pause"
    /\ pc' = "drv_loop"
    /\ ses' = [ses EXCEPT !.lastPhase = "Paused"]
    /\ UNCHANGED <<cfg, drv, swap_result, exe, call>>

Next ==
    \/ Start
    \/ InitialBalances
    \/ DriverLoop
    \/ RefreshBalances
    \/ InstanceSelect
    \/ CrystalSelect
    \/ SwapLoop
    \/ SwapBalance
    \/ SwapQuote
    \/ CheckAllowance
    \/ GetGasParams
    \/ GetTransactionCount
    \/ EstimateGas
    \/ SendApproval
    \/ ApprovalReceipt
    \/ SendSwap
    \/ SwapReceipt
    \/ ExceptionHandler
    \/ BackoffSleep
    \/ SwapReturned
    \/ Pause
    \/ Mine

Spec == Init /\ [][Next]_vars

TypeOK ==
    /\ impl \in Impls
    /\ ATTEMPTS \in Nat
    /\ pc \in DriverPcs \cup ExecutorPcs
    /\ swap_num \in 0..num_swaps
    /\ token_from \in Tokens \cup {""}
    /\ retry \in -1..ATTEMPTS
    /\ e \in Faults \cup {"none"}

----------------------------------------------------------------------------
(* The steps of the swap executor. *)
SwapStep ==
    \/ SwapLoop \/ SwapBalance \/ SwapQuote \/ CheckAllowance \/ GetGasParams
    \/ GetTransactionCount \/ EstimateGas \/ SendApproval \/ ApprovalReceipt
    \/ SendSwap \/ SwapReceipt \/ ExceptionHandler \/ BackoffSleep

InSwapCall == pc \in ExecutorPcs

(* The steps of execute and of the swap it awaits: each is the return or  *)
(* the raise of the pending await, or the code up to the next await.      *)
Progress ==
    \/ Start \/ InitialBalances \/ DriverLoop \/ RefreshBalances
    \/ InstanceSelect \/ CrystalSelect \/ SwapStep \/ SwapReturned \/ Pause

(* Every chain-client call and every sleep eventually returns or raises:  *)
(* the pending await of the coroutine does not stay pending for ever.     *)
(* The chain is not required to include a pending transaction.            *)
FairSpec == Init /\ [][Next]_vars /\ WF_vars(Progress)

----------------------------------------------------------------------------
(* get_token_balance (instance), await by await. *)
max_retries == 15

BalanceErrors == {"rpc", "timeout"}

(* One call of get_token_balance by execute, for either token; retries = 0 *)
(* and last_exception = None, and the loop test 0 <= max_retries passes.  *)
BalanceInit ==
    /\ impl = "instance"
    /\ ENABLED_FLAG = TRUE
    /\ ATTEMPTS = 1
    /\ pc = "init_balances"
    /\ num_swaps = 0
    /\ swap_num = 0
    /\ token_balances = [t \in Tokens |-> 0]
    /\ token_from = ""
    /\ amount = 0
    /\ swap_result = NoResult
    /\ retry = -1
    /\ tx_hash = <<>>
    /\ e = "none"
    /\ call = NewCall
    /\ ses = NewSession
    /\ \E token \in Tokens :
         gtb = [NoBalanceCall EXCEPT !.pc = "gtb_query", !.token = token]

(* while retries <= max_retries *)
KeepsQuerying(retries) == retries <= max_retries

(* await get_balance(...) or await balanceOf(...).call(): the node answers *)
(* and the balance is returned, or the call raises and the handler counts *)
(* the retry and sleeps.                                                  *)
BalanceQuery ==
    /\ gtb.pc = "gtb_query"
    /\ \/ \E balance \in QueriedBalances(gtb.token) :
            gtb' = [gtb EXCEPT !.pc = "gtb_return", !.result = balance,
                               !.queries = @ + 1]
       \/ \E err \in BalanceErrors :
            gtb' = [gtb EXCEPT !.pc = "gtb_sleep", !.retries = @ + 1,
                               !.last_exception = err, !.queries = @ + 1]
    /\ UNCHANGED <<impl, ENABLED_FLAG, ATTEMPTS, pc, drv, swap_result, exe, call, ses>>

(* await asyncio.sleep(1) returns; the loop test; after the loop the      *)
(* error is logged with max_retries as the attempt count and 0 returned.  *)
BalanceSleep ==
    /\ gtb.pc = "gtb_sleep"
    /\ IF KeepsQuerying(gtb.retries)
       THEN gtb' = [gtb EXCEPT !.pc = "gtb_query"]
       ELSE gtb' = [gtb EXCEPT !.pc = "gtb_return", !.result = 0,
                               !.reported = max_retries]
    /\ UNCHANGED <<impl, ENABLED_FLAG, ATTEMPTS, pc, drv, swap_result, exe, call, ses>>

BalanceNext ==
    \/ BalanceQuery
    \/ BalanceSleep

BalanceSpec == BalanceInit /\ [][BalanceNext]_vars

----------------------------------------------------------------------------
(* C1: in swap (instance), as long as every balance query of the call has *)
(* reported less than the amount, nothing has been broadcast, neither an  *)
(* approval nor a swap, and a call that returns so returns a failure.     *)
C1_ShortBalanceNoBroadcast ==
    (impl = "instance" /\ InSwapCall /\ call.allShort) =>
        /\ call.sends = 0
        /\ call.swapSends = 0
        /\ (pc = "sw_return" => ~swap_result.success)

(* C1 witness: two or more attempts, each found the balance short, and    *)
(* the call returned.                                                     *)
C1_Witness ==
    /\ impl = "instance"
    /\ pc = "sw_return"
    /\ ATTEMPTS >= 2
    /\ call.queries = ATTEMPTS
    /\ call.allShort
    /\ ~swap_result.success

(* C2: in one call of the executor, of either implementation, no more     *)
(* than ATTEMPTS attempts start and no more than one swap transaction is  *)
(* broadcast per attempt started.                                         *)
C2_AttemptsBounded ==
    InSwapCall =>
        /\ call.attempts <= ATTEMPTS
        /\ call.swapSends <= call.attempts
        /\ call.swapSends <= ATTEMPTS

(* C2 witness: every attempt broadcast a swap, after a mix of exceptions  *)
(* and a revert.                                                          *)
C2_Witness ==
    /\ pc = "sw_return"
    /\ ATTEMPTS >= 2
    /\ call.attempts = ATTEMPTS
    /\ call.swapSends = ATTEMPTS
    /\ call.sleeps >= 1
    /\ call.lastEnd = "revert"

(* C3: while every balance refresh of the session has reported            *)
(* MON < 0.001 and USDC < 0.01, the swap executor has not been invoked    *)
(* and nothing has been broadcast, in both drivers.                       *)
C3_DepletedNoSwap ==
    ses.allLow => /\ ses.swapCalls = 0
                  /\ ~ses.broadcast
                  /\ ~InSwapCall

(* C3 witness: a session that refreshed its balances, found them below    *)
(* both minimums every time, and ended.                                   *)
C3_Witness ==
    /\ pc = "done"
    /\ num_swaps >= 1
    /\ ses.refreshes >= 1
    /\ ses.depletedAt = 1
    /\ ses.allLow

(* C4: in instance, once an iteration has seen both balances below their  *)
(* minimums, no later iteration begins: the loop variable stays at that   *)
(* iteration and no further balance refresh is issued.                    *)
C4_NoIterationAfterDepleted ==
    (impl = "instance" /\ ses.depletedAt # 0) =>
        /\ swap_num = ses.depletedAt
        /\ ses.refreshes = ses.depletedAt

(* C5: in swap (instance), when the receipt of the swap transaction has   *)
(* status 1, the call has returned, in the attempt that got the receipt,  *)
(* a success whose tx_hash is the hex identifier of the transaction       *)
(* broadcast last, which is not empty.                                     *)
C5_SuccessReceiptReturnsHash ==
    (impl = "instance" /\ InSwapCall /\ call.lastStatus = 1) =>
        /\ pc = "sw_return"
        /\ retry = call.lastAttempt
        /\ swap_result.success
        /\ swap_result.tx_hash = ToHex(TxHashOf(call.sends))
        /\ Len(swap_result.tx_hash) > 2

(* C5 witness: a success returned by an attempt after the first. *)
C5_Witness ==
    /\ impl = "instance"
    /\ pc = "sw_return"
    /\ call.lastStatus = 1
    /\ retry >= 1
    /\ swap_result.success

(* C6: in both implementations, a call none of whose receipts had status  *)
(* 1 does not escape with an exception, and returns a failure.            *)
C6_RevertedNeverSucceeds ==
    (InSwapCall /\ call.receipts # "one") =>
        /\ pc # "sw_raised"
        /\ (pc = "sw_return" => ~swap_result.success /\ swap_result.error # "")

(* C6 witness: a call that obtained receipts, all of status 0, returned. *)
C6_Witness ==
    /\ pc = "sw_return"
    /\ call.receipts = "zeros"
    /\ call.lastStatus = 0
    /\ ~swap_result.success

(* C7: swap (instance) never raises to its caller: whichever calls fail,  *)
(* the call is never left by an exception, it can always take a further   *)
(* step until it returns, and a return with no successful attempt is a    *)
(* failure with an error description.                                     *)
C7_SwapNeverRaises ==
    (impl = "instance" /\ InSwapCall) =>
        /\ pc # "sw_raised"
        /\ (pc # "sw_return" => ENABLED SwapStep)
        /\ (pc = "sw_return" /\ call.lastEnd # "success" =>
                ~swap_result.success /\ swap_result.error # "")

(* C7 witness: every attempt ended in an exception, one of them after a   *)
(* broadcast, and the call returned its failure.                          *)
C7_Witness ==
    /\ impl = "instance"
    /\ pc = "sw_return"
    /\ ATTEMPTS >= 2
    /\ call.lastEnd = "exception"
    /\ call.sleeps = ATTEMPTS - 1
    /\ call.sends >= 1
    /\ swap_result = Failure("Max retry attempts reached")

(* C8: when an attempt that is not the last ends in a revert (receipt     *)
(* status 0), the executor starts a backoff sleep for that attempt and    *)
(* goes on to another attempt.                                            *)
C8_RevertBacksOff ==
    (InSwapCall /\ call.lastEnd = "revert" /\ call.lastAttempt = retry
         /\ retry < ATTEMPTS - 1) =>
        /\ call.lastSlept = retry
        /\ pc \in {"sw_sleep", "sw_loop"}

(* C9: for a swap from USDC, a swap transaction is awaiting its receipt   *)
(* only if, in that attempt, the allowance was sufficient or an approval  *)
(* was confirmed with status 1.                                           *)
C9_SwapOnlyWhenApproved ==
    (token_from = "USDC" /\ pc = "sw_receipt") =>
        call.approval \in {"allowance_ok", "approved"}

(* C10: in swap (instance), the first attempt that finds the balance      *)
(* short ends the call: no backoff sleep, no further attempt and no       *)
(* further balance query follow it.                                       *)
C10_ShortBalanceFailsFast ==
    (impl = "instance" /\ InSwapCall /\ call.shortAt # -1) =>
        /\ pc # "sw_sleep"
        /\ call.lastSlept < call.shortAt
        /\ call.attempts = call.shortAt + 1
        /\ call.queries = call.shortAt + 1

----------------------------------------------------------------------------
(* The phase of the session driver: before the loop, choosing the swap of *)
(* an iteration, inside the swap executor, in the pause between swaps, or *)
(* returned.  At the head of the loop the driver is still in the phase    *)
(* that led there.                                                        *)
Phase ==
    IF pc \in {"idle", "init_balances"} THEN "Idle"
    ELSE IF pc = "drv_loop" THEN ses.lastPhase
    ELSE IF pc \in {"refresh", "select"} THEN "Selecting"
    ELSE IF pc \in ExecutorPcs THEN "Executing"
    ELSE IF pc = "pause" THEN "Paused"
    ELSE "Done"

(* C11 as stated: the driver pauses between every two consecutive         *)
(* iterations, so that the refresh of iteration k + 1 comes after k       *)
(* pauses, whether or not an earlier iteration was skipped, and it never  *)
(* pauses after the final iteration.                                      *)
C11_PauseBetweenAllIterations ==
    /\ (pc = "refresh" => ses.pauses = swap_num - 1)
    /\ (pc = "pause" => swap_num < num_swaps)

(* C11, amended: the driver pauses after every iteration k < num_swaps    *)
(* that called the swap executor, before the refresh of iteration k + 1;  *)
(* an iteration that was skipped is followed by no pause; and the driver  *)
(* never pauses after the final iteration.                                *)
C11_PauseAfterEverySwap ==
    /\ (pc = "refresh" => ses.pauses = ses.swapCalls)
    /\ ses.pauses <= ses.swapCalls
    /\ (pc = "pause" => swap_num < num_swaps)

C11_Witness ==
    /\ pc = "refresh"
    /\ swap_num = 2
    /\ ses.swapCalls = 1
    /\ ses.pauses = 1

(* The transitions of the driver's state machine that spec names, other   *)
(* than the final one into Done.                                          *)
ListedTransitions ==
    { <<"Idle", "Selecting">>, <<"Selecting", "Executing">>,
      <<"Executing", "Paused">>, <<"Paused", "Selecting">> }

(* C12 as stated: the driver makes only the transitions Idle -> Selecting,*)
(* Selecting -> Executing, Executing -> Paused, Paused -> Selecting and   *)
(* the final one into Done; no iteration goes from Selecting to the next  *)
(* Selecting without passing through Executing and Paused.                *)
C12_OnlyListedTransitions ==
    [][ \/ Phase' = Phase /\ swap_num' = swap_num
        \/ <<Phase, Phase'>> \in ListedTransitions
        \/ Phase' = "Done" ]_vars

(* C12, amended: besides the listed transitions the driver goes from      *)
(* Selecting straight to the Selecting of the next iteration when the     *)
(* iteration is skipped; Done is entered from Idle, Selecting or          *)
(* Executing, never from Paused; and Executing is never followed by       *)
(* Selecting without the pause.                                           *)
C12_TransitionsWithSkip ==
    [][ \/ Phase' = Phase /\ swap_num' = swap_num
        \/ <<Phase, Phase'>> \in ListedTransitions
        \/ Phase = "Selecting" /\ Phase' = "Selecting" /\ swap_num' = swap_num + 1
        \/ Phase' = "Done" /\ Phase \in {"Idle", "Selecting", "Executing"} ]_vars

C12_Witness ==
    /\ pc = "refresh"
    /\ swap_num = 2
    /\ ses.swapCalls = 0
    /\ ses.pauses = 0

(* C13: swaps never overlap.  At most one broadcast transaction is        *)
(* awaiting its receipt at any point, it is awaited by the receipt wait   *)
(* the executor is in, and the driver (the refresh of the next iteration  *)
(* included) runs only when every broadcast transaction has had its       *)
(* receipt wait return or fail.                                           *)
C13_NoOverlap ==
    /\ Cardinality(ses.awaiting) <= 1
    /\ (ses.awaiting # {} =>
           /\ pc \in {"ap_receipt", "sw_receipt"}
           /\ ses.awaiting = {<<swap_num, call.sends>>})
    /\ (pc \in DriverPcs \cup {"sw_return"} => ses.awaiting = {})

C13_Witness ==
    /\ pc = "sw_receipt"
    /\ swap_num = 2
    /\ ses.swapCalls = 2
    /\ ses.awaiting = {<<swap_num, call.sends>>}

(* C14: a failed swap never stops the session.  The driver returns only   *)
(* after iteration num_swaps, or, in crystal, from the iteration whose    *)
(* refresh found both balances below their minimums; so after a failed    *)
(* swap in iteration k < num_swaps iteration k + 1 begins.                *)
C14_FailureDoesNotStop ==
    /\ pc # "sw_raised"
    /\ (pc = "done" =>
           \/ swap_num = num_swaps
           \/ /\ impl = "crystal"
              /\ Depleted(token_balances["MON"], token_balances["USDC"])
              /\ ses.depletedAt = swap_num
              /\ ses.refreshes = swap_num)

C14_Witness ==
    /\ pc = "select"
    /\ swap_num = 2
    /\ ses.prevFailed
    /\ ses.swapCalls = 1

(* C15: the amount of every swap intent is positive and at most the       *)
(* balance of its source token as refreshed in that iteration, for every  *)
(* percent of the configured range (a percentage, at most 100); the same  *)
(* holds of the amount of a skipped iteration.                            *)
C15_AmountWithinBalance ==
    /\ (InSwapCall =>
           /\ token_from \in Tokens
           /\ amount > 0
           /\ amount <= token_balances[token_from])
    /\ (token_from \in Tokens => amount <= token_balances[token_from])

C15_Witness ==
    /\ pc = "sw_loop"
    /\ retry = -1
    /\ token_from = "USDC"
    /\ amount = token_balances["USDC"]
    /\ amount > 0

(* C16: in instance, an iteration that chose a pair is skipped only when  *)
(* its amount is below the dust threshold of the source token, 0.001 MON  *)
(* or 0.01 USDC; an amount at or above the threshold goes to the swap     *)
(* executor.                                                              *)
C16_SkipOnlyBelowDust ==
    (impl = "instance" /\ pc = "drv_loop" /\ ses.lastPhase = "Selecting"
        /\ token_from \in Tokens) =>
        amount < (IF token_from = "MON" THEN 1000 ELSE 10000)

(* C17: the iterations begun, the balance refreshes and the calls of the  *)
(* swap executor never exceed the drawn num_swaps, and the drawn          *)
(* num_swaps lies in [min_swaps, max_swaps].                              *)
C17_WithinDrawnCount ==
    /\ swap_num <= num_swaps
    /\ ses.refreshes <= swap_num
    /\ ses.swapCalls <= ses.refreshes
    /\ ((ENABLED_FLAG /\ pc \notin {"idle", "init_balances"}) =>
           (MinSwaps <= num_swaps /\ num_swaps <= MaxSwaps))

C17_Witness ==
    /\ pc = "done"
    /\ num_swaps = MaxSwaps
    /\ swap_num = num_swaps
    /\ ses.swapCalls = num_swaps

(* C18: in both implementations, while every gas estimation of a swap    *)
(* call has failed, no swap transaction has been broadcast, and a call    *)
(* that returns so returns a failure.                                     *)
C18_EstimateFailureNoBroadcast ==
    (InSwapCall /\ call.estFails >= 1) =>
        /\ call.swapSends = 0
        /\ (pc = "sw_return" => ~swap_result.success)

(* C19: in both implementations a swap transaction that has been          *)
(* broadcast was preceded in the same attempt by a quote (getAmountsOut), *)
(* and its minimum output is the quoted output reduced by the slippage of *)
(* 0.5 percent: at most the quote, and non-zero whenever the reduced      *)
(* quote is at least 1.                                                   *)
C19_QuotedMinimumOutput ==
    pc = "sw_receipt" =>
        /\ call.quote >= 0
        /\ call.minOut = (call.quote * 995) \div 1000
        /\ call.minOut <= call.quote
        /\ (call.quote * 995 >= 1000 => call.minOut > 0)

(* C20: in an iteration whose refresh found MON >= 0.001 and USDC < 0.01, *)
(* and whose drawn percent yields a MON amount of at least 0.001, the     *)
(* driver selects MON -> USDC and does not skip the iteration.            *)
C20_OnlyMonSpendableSwapsMon ==
    LET mon_balance == token_balances["MON"]
        usdc_balance == token_balances["USDC"]
        onlyMon == mon_balance >= 1000 /\ usdc_balance < 10000
    IN  /\ ~ /\ pc = "drv_loop"
              /\ ses.lastPhase = "Selecting"
              /\ onlyMon
              /\ ses.percent # 0
              /\ (mon_balance * ses.percent) \div 100 >= 1000
        /\ (InSwapCall /\ onlyMon) => token_from = "MON"

(* C21: when CRYSTAL_SWAP is missing or its ENABLED flag is false,        *)
(* execute returns at once: no balance query, no call of the swap         *)
(* executor, no broadcast, no sleep, and no swap count is drawn.          *)
C21_DisabledNoChainCall ==
    ~ENABLED_FLAG =>
        /\ pc \in {"idle", "done"}
        /\ ~ses.chain
        /\ ses.refreshes = 0
        /\ ses.swapCalls = 0
        /\ ~ses.broadcast
        /\ ses.pauses = 0
        /\ call = NewCall
        /\ token_balances = [t \in Tokens |-> 0]

C21_Witness ==
    /\ ~ENABLED_FLAG
    /\ pc = "done"
    /\ ~ses.chain

(* C22: in swap (instance), a success is returned only by an attempt that *)
(* broadcast a swap transaction and got its receipt with status 1; the    *)
(* call has then returned and takes no further step, so a call returns    *)
(* at most one successful transaction identifier.                         *)
C22_SuccessOnlyFromReceipt ==
    impl = "instance" =>
        /\ (swap_result.success =>
               /\ pc = "sw_return"
               /\ call.sentAt = retry
               /\ call.lastAttempt = retry
               /\ call.lastStatus = 1
               /\ call.lastEnd = "success"
               /\ call.swapSends >= 1
               /\ swap_result.tx_hash = ToHex(tx_hash))
        /\ ((InSwapCall /\ call.lastEnd = "success") =>
               (pc = "sw_return" /\ swap_result.success))

C22_Witness ==
    /\ impl = "instance"
    /\ pc = "sw_return"
    /\ swap_result.success
    /\ retry = 1
    /\ call.swapSends = 2
    /\ call.sentAt = 1

(* C23: one call of swap (instance) causes at most one swap transaction   *)
(* to be included on-chain with status 1, also when the receipt wait of a *)
(* broadcast swap failed while the transaction was still pending and the  *)
(* call went on to another attempt.                                       *)
C23_AtMostOneIncluded ==
    (impl = "instance" /\ InSwapCall) => call.included <= 1

(* C24: provided every chain-client call and every sleep eventually       *)
(* returns or raises, execute reaches its completed state and stays       *)
(* there, for every drawn swap count, every ATTEMPTS and every pattern of *)
(* failures, reverts and balances.                                        *)
C24_Terminates == <>[](pc = "done")

C24_Witness ==
    /\ pc = "done"
    /\ ENABLED_FLAG
    /\ ATTEMPTS = MaxAttempts
    /\ swap_num = MaxSwaps
    /\ ses.prevFailed

(* C25: get_token_balance (instance) sends at most max_retries balance    *)
(* queries; when every query raised it returns 0 and the attempt count of *)
(* its error message is the number of queries it sent; when a query       *)
(* succeeds it returns that balance at once, and logs no error.           *)
C25_AtMostMaxRetriesQueries ==
    /\ gtb.queries <= max_retries
    /\ gtb.pc = "gtb_return" =>
          IF gtb.reported = -1
          THEN /\ gtb.result \in QueriedBalances(gtb.token)
               /\ gtb.queries = gtb.retries + 1
          ELSE /\ gtb.result = 0
               /\ gtb.reported = gtb.queries

============================================================================
